---- MODULE Spec2Model ----
(***************************************************************************)
(* ResumeParser (src/utils/resume_parser.py): construction with layered    *)
(* capability fallback, parse_resume and the extract_information pipeline. *)
(*                                                                         *)
(* A Python str is a sequence of one-character strings.  A character       *)
(* outside ASCII is written by its code point ("U+0130").  Offsets are     *)
(* 0-based as in Python: offset p names the character s[p + 1] of the      *)
(* sequence.                                                               *)
(***************************************************************************)
EXTENDS Integers, Sequences, FiniteSets

VARIABLES
  pc,        \* "new" before ResumeParser() has run, then "ready" ("failed" had it raised)
  nlp,       \* self.nlp: the capability the constructor selected
  use_rag,   \* self.use_rag
  ctor,      \* what each acquisition of the constructor did
  call,      \* the last call: its operation, its text, what self.nlp(text)
             \* returned and what the retrieval step met
  outcome,   \* how the last call ended: "record", "None" or "raise"
  result,    \* the record the last call returned
  trace,     \* the collaborators and steps the last call ran
  prev       \* the text of the call before the last

vars == <<pc, nlp, use_rag, ctor, call, outcome, result, trace, prev>>

---------------------------------------------------------------------------
(* Characters and str methods                                              *)

LowerOf ==
  [A |-> "a", B |-> "b", C |-> "c", D |-> "d", E |-> "e", F |-> "f",
   G |-> "g", H |-> "h", I |-> "i", J |-> "j", K |-> "k", L |-> "l",
   M |-> "m", N |-> "n", O |-> "o", P |-> "p", Q |-> "q", R |-> "r",
   S |-> "s", T |-> "t", U |-> "u", V |-> "v", W |-> "w", X |-> "x",
   Y |-> "y", Z |-> "z"]

UpperChars == DOMAIN LowerOf

LowerChars == {LowerOf[c] : c \in UpperChars}

DigitChars == {"0", "1", "2", "3", "4", "5", "6", "7", "8", "9"}

\* str.strip() and the regex class \s of a str pattern: the characters of
\* str.isspace(), which are the ASCII ones (\t \n \v \f \r, 0x1c-0x1f,
\* space) and the Unicode spaces.
Whitespace ==
  {" ", "\t", "\n", "U+000B", "\f", "\r", "U+001C", "U+001D", "U+001E", "U+001F",
   "U+0085", "U+00A0", "U+1680",
   "U+2000", "U+2001", "U+2002", "U+2003", "U+2004", "U+2005", "U+2006", "U+2007",
   "U+2008", "U+2009", "U+200A", "U+2028", "U+2029", "U+202F", "U+205F", "U+3000"}

\* Non-ASCII letters of the model's alphabet: I with dot above, a circumflex.
OtherLetters == {"U+0130", "U+00E2"}

\* The regex class \w, which decides \b.
IsWord(c) == c \in UpperChars \cup LowerChars \cup DigitChars \cup OtherLetters \cup {"_"}

\* str.lower() of one character.  U+0130 lowers to two characters.
LowerChar(c) ==
  IF c \in UpperChars THEN <<LowerOf[c]>>
  ELSE IF c = "U+0130" THEN <<"i", "U+0307">>
  ELSE <<c>>

RECURSIVE Flatten(_)
Flatten(ss) == IF ss = <<>> THEN <<>> ELSE Head(ss) \o Flatten(Tail(ss))

\* str.lower(): the concatenation of the characters' lowerings (computed
\* pointwise when every character lowers to one character).
str_lower(s) ==
  IF \A i \in 1..Len(s) : s[i] # "U+0130"
  THEN [i \in 1..Len(s) |-> LowerChar(s[i])[1]]
  ELSE Flatten([i \in 1..Len(s) |-> LowerChar(s[i])])

Min(S) == CHOOSE x \in S : \A y \in S : x <= y

Max(S) == CHOOSE x \in S : \A y \in S : x >= y

\* s[p] for a 0-based offset p; "" beyond either end.
Ch(s, p) == IF p >= 0 /\ p < Len(s) THEN s[p + 1] ELSE ""

\* s[a:b]
Slice(s, a, b) == SubSeq(s, a + 1, IF b < Len(s) THEN b ELSE Len(s))

MatchAt(s, sub, i) == \A j \in 1..Len(sub) : s[i + j] = sub[j]

\* sub in s
Contains(s, sub) == \E i \in 0..(Len(s) - Len(sub)) : MatchAt(s, sub, i)

\* s.find(sub): the lowest offset of sub in s, -1 when there is none.
str_find(s, sub) ==
  LET at == {i \in 0..(Len(s) - Len(sub)) : MatchAt(s, sub, i)}
  IN IF at = {} THEN -1 ELSE Min(at)

\* s.strip()
str_strip(s) ==
  LET keep == {i \in 1..Len(s) : s[i] \notin Whitespace}
  IN IF keep = {} THEN <<>> ELSE SubSeq(s, Min(keep), Max(keep))

---------------------------------------------------------------------------
(* The regular expressions of extract_information, as Python's             *)
(* backtracking matcher runs them: a match is tried at each offset from    *)
(* the left, alternatives in priority order (greedy first).  A stage maps  *)
(* the offsets reached so far, in priority order, to the offsets reached   *)
(* after it.                                                               *)

\* \b at offset p
WordBoundary(s, p) == IsWord(Ch(s, p - 1)) # IsWord(Ch(s, p))

\* The offset after the longest run of characters of cls starting at p.
RunEnd(s, p, cls) ==
  LET stop == {k \in p..(Len(s) - 1) : Ch(s, k) \notin cls}
  IN IF stop = {} THEN (IF p > Len(s) THEN p ELSE Len(s)) ELSE Min(stop)

\* q, q-1, ..., lo: the ends a greedy quantifier tries, longest first.
Descending(q, lo) == [k \in 1..(q - lo + 1) |-> q - k + 1]

Reached(ps) == SelectSeq(ps, LAMBDA q : q >= 0)

\* An optional single character of cls (X?): with it, then without.
OptChar(s, ps, cls) ==
  Reached([k \in 1..(2 * Len(ps)) |->
             IF k % 2 = 1
             THEN (IF Ch(s, ps[(k + 1) \div 2]) \in cls THEN ps[(k + 1) \div 2] + 1 ELSE -1)
             ELSE ps[k \div 2]])

\* Exactly n digits (\d{n}).
DigitRun(s, ps, n) ==
  Reached([k \in 1..Len(ps) |->
             IF \A j \in 0..(n - 1) : Ch(s, ps[k] + j) \in DigitChars
             THEN ps[k] + n ELSE -1])

\* [A-Za-z0-9._%+-]
LocalChars == UpperChars \cup LowerChars \cup DigitChars \cup {".", "_", "%", "+", "-"}

\* [A-Za-z0-9.-]
DomainChars == UpperChars \cup LowerChars \cup DigitChars \cup {".", "-"}

\* [A-Z|a-z]: the bar is a member of the class.
TldChars == UpperChars \cup LowerChars \cup {"|"}

\* [\s.-]
SeparatorChars == Whitespace \cup {".", "-"}

\* email_pattern matched at offset p: the offset after the match, -1 for none.
EmailMatchEnd(s, p) ==
  IF ~(WordBoundary(s, p) /\ Ch(s, p) \in LocalChars) THEN -1
  ELSE
    LET a == RunEnd(s, p, LocalChars)
        dEnd == RunEnd(s, a + 1, DomainChars)
        TldEnds(t0) ==
          SelectSeq(Descending(RunEnd(s, t0, TldChars), t0 + 2),
                    LAMBDA q : WordBoundary(s, q))
        doms == SelectSeq(Descending(dEnd, a + 2),
                          LAMBDA d : Ch(s, d) = "." /\ TldEnds(d + 1) # <<>>)
    IN IF Ch(s, a) # "@" \/ doms = <<>> THEN -1
       ELSE Head(TldEnds(Head(doms) + 1))

\* phone_pattern matched at offset p: the offset after the match, -1 for none.
PhoneMatchEnd(s, p) ==
  IF ~WordBoundary(s, p) THEN -1
  ELSE
    LET cc == IF Ch(s, p) = "+"
              THEN OptChar(s,
                     Reached(<<IF Ch(s, p + 1) \in DigitChars /\ Ch(s, p + 2) \in DigitChars
                               THEN p + 3 ELSE -1,
                               IF Ch(s, p + 1) \in DigitChars THEN p + 2 ELSE -1>>),
                     Whitespace)
              ELSE <<>>
        l1 == cc \o <<p>>
        l2 == OptChar(s, l1, {"("})
        l3 == DigitRun(s, l2, 3)
        l4 == OptChar(s, l3, {")"})
        l5 == OptChar(s, l4, SeparatorChars)
        l6 == DigitRun(s, l5, 3)
        l7 == OptChar(s, l6, SeparatorChars)
        l8 == DigitRun(s, l7, 4)
        l9 == SelectSeq(l8, LAMBDA q : WordBoundary(s, q))
    IN IF l9 = <<>> THEN -1 ELSE Head(l9)

\* re.findall(email_pattern, text)[:1]: the leftmost match, if any.
FirstEmail(s) ==
  LET at == {p \in 0..(Len(s) - 1) : EmailMatchEnd(s, p) >= 0}
  IN IF at = {} THEN <<>> ELSE <<Slice(s, Min(at), EmailMatchEnd(s, Min(at)))>>

\* re.findall(phone_pattern, text)[:1]
FirstPhone(s) ==
  LET at == {p \in 0..(Len(s) - 1) : PhoneMatchEnd(s, p) >= 0}
  IN IF at = {} THEN <<>> ELSE <<Slice(s, Min(at), PhoneMatchEnd(s, Min(at)))>>

---------------------------------------------------------------------------
(* The steps of extract_information                                        *)

\* skill_keywords
skill_keywords ==
  <<<<"p", "y", "t", "h", "o", "n">>,
    <<"j", "a", "v", "a">>,
    <<"j", "a", "v", "a", "s", "c", "r", "i", "p", "t">>,
    <<"r", "e", "a", "c", "t">>,
    <<"n", "o", "d", "e", ".", "j", "s">>,
    <<"s", "q", "l">>,
    <<"a", "w", "s">>,
    <<"a", "z", "u", "r", "e">>,
    <<"g", "c", "p">>,
    <<"d", "o", "c", "k", "e", "r">>,
    <<"k", "u", "b", "e", "r", "n", "e", "t", "e", "s">>,
    <<"t", "e", "n", "s", "o", "r", "f", "l", "o", "w">>,
    <<"p", "y", "t", "o", "r", "c", "h">>,
    <<"p", "a", "n", "d", "a", "s">>,
    <<"n", "u", "m", "p", "y">>,
    <<"f", "l", "a", "s", "k">>,
    <<"d", "j", "a", "n", "g", "o">>>>

\* The headers of the experience heuristic, in the order they are tried.
experience_headers ==
  <<<<"e", "x", "p", "e", "r", "i", "e", "n", "c", "e">>,
    <<"w", "o", "r", "k", " ", "e", "x", "p", "e", "r", "i", "e", "n", "c", "e">>,
    <<"p", "r", "o", "f", "e", "s", "s", "i", "o", "n", "a", "l", " ", "e", "x", "p", "e", "r", "i", "e", "n", "c", "e">>>>

\* The terms that make an ORG entity an education entry.
education_terms ==
  {<<"u", "n", "i", "v", "e", "r", "s", "i", "t", "y">>,
   <<"c", "o", "l", "l", "e", "g", "e">>,
   <<"i", "n", "s", "t", "i", "t", "u", "t", "e">>}

\* The length of the experience snippet: text[idx: idx + 1000].
SnippetLen == 1000

\* The delimiters of re.split(r"[,\n...-]", resp).  The class holds the three
\* characters U+00E2, U+20AC, U+00A2 that the source file has in the place
\* of a bullet; the bullet U+2022 itself is not in it.
split_delimiters == {",", "\n", "U+00E2", "U+20AC", "U+00A2", "-"}

\* What reading an entity attribute can do besides yield a value.
AttrRaises == "<raises>"

\* An entity text that cannot be read.
TextRaises == <<"<raises>">>

AttrMissing == "<missing>"

\* None, where a str is expected (an argument, an answer, the API key).
PyNone == <<"<None>">>

\* Python truthiness of a str-or-None value.
Truthy(v) == v # <<>> /\ v # PyNone

\* The locals kept on the instance: what the call before left.
NewAccumulators_Carried ==
  [skills |-> result.skills, education |-> <<>>, experience |-> result.experience,
   contact_info |-> result.contact_info]

\* Lines 81-84: skills = set(), education = [], experience = [],
\* contact_info = {"email": "", "phone": ""}, the locals every call starts from.
NewAccumulators ==
  [skills |-> {}, education |-> <<>>, experience |-> <<>>,
   contact_info |-> [email |-> <<>>, phone |-> <<>>]]

---------------------------------------------------------------------------
(* The texts the calls are given                                           *)

JaneText ==
  <<"C", "o", "n", "t", "a", "c", "t", ":", " ", "j", "a", "n", "e", "@", "e", "x", "a", "m", "p", "l", "e", ".", "c", "o", "m", ",", " ", "(", "5", "5", "5", ")", " ", "1", "2", "3", "-", "4", "5", "6", "7", ".", " ", "E", "x", "p", "e", "r", "i", "e", "n", "c", "e", ":", " ", "B", "u", "i", "l", "t", " ", "s", "y", "s", "t", "e", "m", "s", " ", "u", "s", "i", "n", "g", " ", "P", "y", "t", "h", "o", "n", " ", "a", "n", "d", " ", "D", "o", "c", "k", "e", "r", " ", "a", "t", " ", "U", "n", "i", "v", "e", "r", "s", "i", "t", "y", " ", "o", "f", " ", "E", "x", "a", "m", "p", "l", "e", ".">>

CasesText == <<"P", "Y", "T", "H", "O", "N", " ", "P", "y", "t", "h", "o", "n", " ", "p", "y", "t", "h", "o", "n">>

PlainText == <<"H", "e", "l", "l", "o", " ", "w", "o", "r", "l", "d">>

DottedText == <<"U+0130", " ", "E", "x", "p", "e", "r", "i", "e", "n", "c", "e", ":", " ", "G", "o">>

MixedText ==
  <<"C", "a", "l", "l", " ", "+", "1", " ", "5", "5", "5", "-", "1", "2", "3", "-", "4", "5", "6", "7", " ", "o", "r", " ", "a", ".", "b", "@", "c", "-", "d", ".", "o", "r", "g", "\r", "\n", "P", "r", "o", "f", "e", "s", "s", "i", "o", "n", "a", "l", " ", "E", "x", "p", "e", "r", "i", "e", "n", "c", "e", " ", "a", "t", " ", "B", "e", "t", "a", " ", "C", "o", "l", "l", "e", "g", "e", ",", " ", "A", "c", "m", "e", ":", " ", "J", "a", "v", "a", "S", "c", "r", "i", "p", "t", "\r", "\n">>

\* The number of characters that follow the header in WorkExperienceText.
FollowLen == 1500

\* "Work Experience" followed by FollowLen characters.
WorkExperienceText ==
  <<"W", "o", "r", "k", " ", "E", "x", "p", "e", "r", "i", "e", "n", "c", "e">> \o [i \in 1..FollowLen |-> IF i % 7 = 0 THEN " " ELSE "x"]

TextList ==
  <<<<>>, JaneText, CasesText, PlainText, DottedText, MixedText, WorkExperienceText>>

Texts == {TextList[i] : i \in 1..Len(TextList)}

---------------------------------------------------------------------------
(* The steps                                                               *)

\* The keyword test without text.lower().
MatchedKeywords_CaseSensitive(text) ==
  {skill_keywords[i] : i \in
     {k \in 1..Len(skill_keywords) : Contains(text, skill_keywords[k])}}

\* Lines 104-106: the keywords whose lowering occurs in the lowered text.
MatchedKeywords(text) ==
  LET lower == str_lower(text)
  IN {skill_keywords[i] : i \in
        {k \in 1..Len(skill_keywords) : Contains(lower, str_lower(skill_keywords[k]))}}

\* Lines 121-128: the first header found in the lowered text gives the
\* offset; the snippet is cut from the original text at that offset and
\* stripped.  At most one entry.
ExperienceSnippet(text) ==
  LET lower == str_lower(text)
      found == SelectSeq(experience_headers, LAMBDA header : Contains(lower, header))
  IN IF found = <<>> THEN <<>>
     ELSE LET idx == str_find(lower, Head(found))
              snippet == Slice(text, idx, idx + SnippetLen)
          IN <<str_strip(snippet)>>

\* What the text alone decides in a call.
Scan(text) ==
  [emails |-> FirstEmail(text), phones |-> FirstPhone(text),
   keywords |-> MatchedKeywords(text), experience |-> ExperienceSnippet(text)]

\* Scan of each text of TextList, computed once (the concatenation makes
\* the table a tuple of values).
ScanTable == [i \in 1..Len(TextList) |-> Scan(TextList[i])] \o <<>>

Scanned(text) ==
  IF text \in Texts
  THEN ScanTable[CHOOSE i \in 1..Len(TextList) : TextList[i] = text]
  ELSE Scan(text)

\* Lines 86-95: the first email and the first phone match, when there is one.
ContactStep(scan, contact_info) ==
  [email |-> IF scan.emails # <<>> THEN scan.emails[1] ELSE contact_info.email,
   phone |-> IF scan.phones # <<>> THEN scan.phones[1] ELSE contact_info.phone]

\* Lines 104-106: skills.add(kw) for every matched keyword.
KeywordStep(scan, skills) == skills \cup scan.keywords

\* getattr(ent, "label_", ""): a missing attribute reads as "".
LabelOf(ent) == IF ent.label = AttrMissing THEN "" ELSE ent.label

LooksLikeEducation(entText) ==
  \E term \in education_terms : Contains(str_lower(entText), term)

\* Lines 109-118: the entity loop.  An exception raised while reading an
\* entity ends the loop (the except clause is outside it); what earlier
\* entities added stays.
RECURSIVE EntityLoop(_, _, _)
EntityLoop(ents, skills, education) ==
  IF ents = <<>> THEN [skills |-> skills, education |-> education]
  ELSE
    LET ent == Head(ents)
        label == LabelOf(ent)
    IN IF ent.label = AttrRaises
          \/ (label \in {"ORG", "PRODUCT"} /\ ent.text = TextRaises)
       THEN [skills |-> skills, education |-> education]
       ELSE EntityLoop(
              Tail(ents),
              IF label \in {"ORG", "PRODUCT"} THEN skills \cup {ent.text} ELSE skills,
              IF label = "ORG" /\ LooksLikeEducation(ent.text)
              THEN Append(education, ent.text) ELSE education)

EntityStep(doc, skills, education) == EntityLoop(doc.ents, skills, education)

\* Lines 122-128: experience.append(snippet.strip()), then break.
ExperienceStep(scan, experience) == experience \o scan.experience

\* re.split on the delimiter class: the pieces between delimiters.
re_split(resp) ==
  LET cuts == {0, Len(resp) + 1} \cup {i \in 1..Len(resp) : resp[i] \in split_delimiters}
  IN {SubSeq(resp, a + 1, b - 1) :
        <<a, b>> \in {ab \in cuts \X cuts :
                        ab[1] < ab[2] /\ \A c \in cuts : ~(ab[1] < c /\ c < ab[2])}}

\* The retrieval step with a handler that records the failure as a skill.
RagStep_AddsOnFailure(rag, skills) ==
  IF rag.kind = "answered" /\ Truthy(rag.resp)
  THEN skills \cup ({str_strip(s) : s \in re_split(rag.resp)} \ {<<>>})
  ELSE IF rag.kind = "query_fails" THEN skills \cup {<<"e", "r", "r", "o", "r">>}
  ELSE skills

\* The retrieval step without the test "if s".
RagStep_KeepsEmpty(rag, skills) ==
  IF rag.kind = "answered" /\ Truthy(rag.resp)
  THEN skills \cup {str_strip(s) : s \in re_split(rag.resp)}
  ELSE skills

\* Lines 132-157: a failure at any stage is swallowed; an answer that is
\* truthy is split, and each non-empty stripped piece is added.
RagStep(rag, skills) ==
  IF rag.kind = "answered" /\ Truthy(rag.resp)
  THEN skills \cup ({str_strip(s) : s \in re_split(rag.resp)} \ {<<>>})
  ELSE skills

EmptyRecord ==
  [raw_text |-> <<>>, skills |-> {}, education |-> {}, experience |-> <<>>,
   contact_info |-> [email |-> <<>>, phone |-> <<>>]]

Range(s) == {s[i] : i \in 1..Len(s)}

\* Lines 159-165.  list(skills) and list(set(education)) have no defined
\* order: both are kept as sets.
MakeRecord(text, skills, education, experience, contact_info) ==
  [raw_text |-> text, skills |-> skills, education |-> Range(education),
   experience |-> experience, contact_info |-> contact_info]

\* The body of extract_information, given what self.nlp(text) does (doc),
\* what the patterns, the keywords and the headers find in the text (scan)
\* and what the retrieval backend does (rag).  trace lists the
\* collaborators and steps the call ran.
ExtractSteps(text, scan, doc, useRag, rag, acc) ==
  IF doc.raises
  THEN [outcome |-> "raise", record |-> EmptyRecord, trace |-> <<"nlp">>]
  ELSE
    LET contact_info == ContactStep(scan, acc.contact_info)
        kw == KeywordStep(scan, acc.skills)
        ent == EntityStep(doc, kw, acc.education)
        experience == ExperienceStep(scan, acc.experience)
        skills == IF useRag THEN RagStep(rag, ent.skills) ELSE ent.skills
    IN [outcome |-> "record",
        record |-> MakeRecord(text, skills, ent.education, experience, contact_info),
        trace |-> <<"nlp", "contact", "keywords", "entities", "experience">>
                  \o (IF useRag THEN <<"retrieval">> ELSE <<>>)]

\* extract_information(text)
extract_information(text, doc, rag) ==
  ExtractSteps(text, Scanned(text), doc, use_rag, rag, NewAccumulators)

\* parse_resume with the guard "if text is None".
parse_resume_NoneOnly(text, doc, rag) ==
  IF text = PyNone
  THEN [outcome |-> "None", record |-> EmptyRecord, trace |-> <<>>]
  ELSE extract_information(text, doc, rag)

\* parse_resume(text)
parse_resume(text, doc, rag) ==
  IF ~Truthy(text)
  THEN [outcome |-> "None", record |-> EmptyRecord, trace |-> <<>>]
  ELSE extract_information(text, doc, rag)


---------------------------------------------------------------------------
(* Construction                                                            *)

NlpTiers == {"en_core_web_lg", "en_core_web_sm", "spacy.blank", "_Blank"}

\* The tiers that run no model: spacy.blank("en") has no entity recognizer,
\* and _Blank builds a Doc whose ents is [].
NoOpTiers == {"spacy.blank", "_Blank"}

Attempt(tried, ok) == IF ~tried THEN "not_attempted" ELSE IF ok THEN "ok" ELSE "fails"

\* The constructor without the outer handler: a failing import, or a
\* failing spacy.blank, raises.
AcquireNlp_NoOuterFallback(importOk, lgOk, smOk, blankOk) ==
  [nlp |-> IF ~importOk THEN "unset"
           ELSE IF lgOk THEN "en_core_web_lg"
           ELSE IF smOk THEN "en_core_web_sm"
           ELSE IF blankOk THEN "spacy.blank"
           ELSE "unset",
   raised |-> ~importOk \/ (~lgOk /\ ~smOk /\ ~blankOk),
   import |-> Attempt(TRUE, importOk),
   lg |-> Attempt(importOk, lgOk),
   sm |-> Attempt(importOk /\ ~lgOk, smOk),
   blank |-> Attempt(importOk /\ ~lgOk /\ ~smOk, blankOk)]

\* Lines 26-46: import spacy, then load the large model, then the small
\* one, then spacy.blank; an exception at any of the four leaves _Blank, so
\* nothing is raised.  Returns the capability and what each attempt did.
AcquireNlp(importOk, lgOk, smOk, blankOk) ==
  [nlp |-> IF ~importOk THEN "_Blank"
           ELSE IF lgOk THEN "en_core_web_lg"
           ELSE IF smOk THEN "en_core_web_sm"
           ELSE IF blankOk THEN "spacy.blank"
           ELSE "_Blank",
   raised |-> FALSE,
   import |-> Attempt(TRUE, importOk),
   lg |-> Attempt(importOk, lgOk),
   sm |-> Attempt(importOk /\ ~lgOk, smOk),
   blank |-> Attempt(importOk /\ ~lgOk /\ ~smOk, blankOk)]

\* The constructor setting use_rag before the acquisition is tried.
AcquireRag_IgnoresFailure(key, acq) ==
  [use_rag |-> Truthy(key),
   rag |-> IF Truthy(key) THEN acq ELSE "not_attempted"]

\* Lines 23 and 49-58: use_rag starts False and becomes True only when the
\* key is truthy and the imports and both constructors went through.
AcquireRag(key, acq) ==
  [use_rag |-> Truthy(key) /\ acq = "ok",
   rag |-> IF Truthy(key) THEN acq ELSE "not_attempted"]

ApiKeys == {PyNone, <<>>, <<"s", "k", "-", "1">>}

RagAcquisitions == {"ok", "import_fails", "embeddings_fails", "llm_fails"}

NoCtor ==
  [import |-> "not_attempted", lg |-> "not_attempted", sm |-> "not_attempted",
   blank |-> "not_attempted", key |-> PyNone, rag |-> "not_attempted"]

---------------------------------------------------------------------------
(* What the collaborators answer                                           *)

Ent(label, text) == [label |-> label, text |-> text]

EmptyDoc == [raises |-> FALSE, ents |-> <<>>]

RaisingDoc == [raises |-> TRUE, ents |-> <<>>]

JaneDoc ==
  [raises |-> FALSE,
   ents |-> <<Ent("PERSON", <<"j", "a", "n", "e">>),
              Ent("PRODUCT", <<"D", "o", "c", "k", "e", "r">>),
              Ent("ORG", <<"U", "n", "i", "v", "e", "r", "s", "i", "t", "y", " ", "o", "f", " ", "E", "x", "a", "m", "p", "l", "e">>)>>]

\* The second entity's text cannot be read.
BrokenDoc ==
  [raises |-> FALSE,
   ents |-> <<Ent("ORG", <<"U", "n", "i", "v", "e", "r", "s", "i", "t", "y", " ", "o", "f", " ", "E", "x", "a", "m", "p", "l", "e">>),
              Ent("ORG", TextRaises),
              Ent("PRODUCT", <<"D", "o", "c", "k", "e", "r">>)>>]

\* An entity without label_, then one whose label_ cannot be read.
MixedDoc ==
  [raises |-> FALSE,
   ents |-> <<Ent("ORG", <<"B", "e", "t", "a", " ", "C", "o", "l", "l", "e", "g", "e">>),
              Ent(AttrMissing, <<"J", "a", "v", "a", "S", "c", "r", "i", "p", "t">>),
              Ent("ORG", <<"A", "c", "m", "e">>),
              Ent(AttrRaises, <<"J", "a", "v", "a", "S", "c", "r", "i", "p", "t">>),
              Ent("PRODUCT", <<"J", "a", "v", "a", "S", "c", "r", "i", "p", "t">>)>>]

\* What self.nlp(text) can do.  A no-op tier returns a document without
\* entities; a model tier returns a document with entities, or raises.
DocChoices(tier, text) ==
  IF tier \in NoOpTiers THEN {EmptyDoc}
  ELSE {EmptyDoc, RaisingDoc}
       \cup (IF text = JaneText THEN {JaneDoc, BrokenDoc} ELSE {})
       \cup (IF text = MixedText THEN {MixedDoc} ELSE {})

Rag(kind, resp) == [kind |-> kind, resp |-> resp]

NoRag == Rag("not_attempted", PyNone)

RagFailures == {"no_splitter", "index_fails", "query_fails"}

Answer == <<"G", "o", ",", " ", "R", "u", "s", "t", "\r", "\n", "-", " ", "K", "a", "f", "k", "a", " ", "U+2022", "g", "R", "P", "C">>

DelimitersOnly == <<" ", ",", "-", "\n", " ">>

\* What the retrieval step can meet: the splitter cannot be imported, the
\* index cannot be built, the query raises, or the chain answers.
RagChoices(text) ==
  {Rag(k, PyNone) : k \in RagFailures}
  \cup {Rag("answered", PyNone), Rag("answered", Answer)}
  \cup (IF text = PlainText THEN {Rag("answered", <<>>), Rag("answered", DelimitersOnly)} ELSE {})

---------------------------------------------------------------------------
(* The state machine                                                       *)

NoCall == [op |-> "none", text |-> <<>>, doc |-> EmptyDoc, rag |-> NoRag]

Init ==
  /\ pc = "new"
  /\ nlp = "unset"
  /\ use_rag = FALSE
  /\ ctor = NoCtor
  /\ call = NoCall
  /\ outcome = "none"
  /\ result = EmptyRecord
  /\ trace = <<>>
  /\ prev = <<>>

\* ResumeParser()
Construct ==
  /\ pc = "new"
  /\ \E importOk, lgOk, smOk, blankOk \in BOOLEAN, key \in ApiKeys, acq \in RagAcquisitions :
       LET n == AcquireNlp(importOk, lgOk, smOk, blankOk)
           r == AcquireRag(key, acq)
       IN /\ nlp' = n.nlp
          /\ use_rag' = r.use_rag
          /\ ctor' = [import |-> n.import, lg |-> n.lg, sm |-> n.sm, blank |-> n.blank,
                      key |-> key, rag |-> r.rag]
          /\ pc' = IF n.raised THEN "failed" ELSE "ready"
  /\ UNCHANGED <<call, outcome, result, trace, prev>>

\* The state after a call: what it returned, and what it was given.
Returned(op, text, doc, rag, r) ==
  /\ outcome' = r.outcome
  /\ result' = r.record
  /\ trace' = r.trace
  /\ call' = [op |-> op, text |-> text,
              doc |-> IF "nlp" \in Range(r.trace) THEN doc ELSE EmptyDoc,
              rag |-> IF "retrieval" \in Range(r.trace) THEN rag ELSE NoRag]
  /\ prev' = call.text
  /\ UNCHANGED <<pc, nlp, use_rag, ctor>>

\* parser.parse_resume(text)
ParseResume ==
  /\ pc = "ready"
  /\ \E text \in Texts \cup {PyNone} :
       \E doc \in DocChoices(nlp, text), rag \in RagChoices(text) :
         \E r \in {parse_resume(text, doc, rag)} :
           Returned("parse_resume", text, doc, rag, r)

\* parser.extract_information(text)
ExtractInformation ==
  /\ pc = "ready"
  /\ \E text \in Texts :
       \E doc \in DocChoices(nlp, text), rag \in RagChoices(text) :
         \E r \in {extract_information(text, doc, rag)} :
           Returned("extract_information", text, doc, rag, r)

Next == Construct \/ ParseResume \/ ExtractInformation

Spec == Init /\ [][Next]_vars
---------------------------------------------------------------------------
(* Properties                                                              *)

Called == call.op # "none"

Ran(step) == step \in Range(trace)

Keywords == Range(skill_keywords)

\* The keywords the text holds as case-insensitive substrings.
KeywordsIn(text) ==
  LET lower == str_lower(text)
  IN {kw \in Keywords : Contains(lower, kw)}

EntityTexts(doc) == {doc.ents[i].text : i \in 1..Len(doc.ents)}

FirstOrEmpty(matches) == IF matches = <<>> THEN <<>> ELSE matches[1]

\* The retrieval step met a failure.
RetrievalFailed == Ran("retrieval") /\ call.rag.kind \in RagFailures

\* The retrieval step gave no fragment: it did not run, it failed, it
\* answered None or "", or its answer holds only delimiters and whitespace.
NoFragment ==
  \/ ~Ran("retrieval")
  \/ call.rag.kind # "answered"
  \/ ~Truthy(call.rag.resp)
  \/ \A i \in 1..Len(call.rag.resp) : call.rag.resp[i] \in split_delimiters \cup Whitespace

\* C1: for every non-empty string, extract_information and parse_resume
\* return a record: no error reaches the caller, whichever step fails, the
\* call self.nlp(text) included.
C1_NoErrorReachesCaller ==
  (Called /\ Truthy(call.text)) => outcome = "record"

\* C2: when retrieval is enabled and the retrieval step fails (no splitter,
\* no index, a failing query), the record equals, field by field, the record
\* of the same text and the same document with retrieval disabled.
C2_FailedRetrievalAddsNothing ==
  (outcome = "record" /\ RetrievalFailed) =>
    result = ExtractSteps(call.text, Scanned(call.text), call.doc, FALSE, NoRag,
                          NewAccumulators).record

C2_Witness ==
  /\ outcome = "record" /\ use_rag /\ Ran("retrieval")
  /\ call.rag.kind = "index_fails"
  /\ call.text = JaneText /\ call.doc = JaneDoc
  /\ <<"d", "o", "c", "k", "e", "r">> \in result.skills
  /\ <<"D", "o", "c", "k", "e", "r">> \in result.skills

\* C3: for the text "Work Experience" followed by 1500 characters, the
\* experience entry is at most 1000 characters long and begins at the
\* offset of the header "Work Experience": its first character is the
\* header's first character.
C3_EntryStartsAtWorkExperience ==
  (outcome = "record" /\ call.text = WorkExperienceText) =>
    /\ Len(result.experience) = 1
    /\ Len(result.experience[1]) <= 1000
    /\ SubSeq(result.experience[1], 1, 15) = <<"W", "o", "r", "k", " ", "E", "x", "p", "e", "r", "i", "e", "n", "c", "e">>

\* C4: construction never raises and ends with a capability selected: the
\* highest tier whose acquisition succeeded, in the order large model, small
\* model, blank; each tier is tried only when every tier above it failed; a
\* failing import or a failing spacy.blank leaves _Blank, whose documents
\* have no entities.
C4_NlpSelectedInPriorityOrder ==
  pc # "new" =>
    /\ pc = "ready"
    /\ nlp \in NlpTiers
    /\ ctor.import # "not_attempted"
    /\ (ctor.lg # "not_attempted") <=> (ctor.import = "ok")
    /\ (ctor.sm # "not_attempted") <=> (ctor.lg = "fails")
    /\ (ctor.blank # "not_attempted") <=> (ctor.sm = "fails")
    /\ (nlp = "en_core_web_lg") <=> (ctor.lg = "ok")
    /\ (nlp = "en_core_web_sm") <=> (ctor.sm = "ok")
    /\ (nlp = "spacy.blank") <=> (ctor.blank = "ok")
    /\ (nlp = "_Blank") <=> (ctor.import = "fails" \/ ctor.blank = "fails")
    /\ (nlp \in NoOpTiers /\ Ran("nlp")) => (~call.doc.raises /\ call.doc.ents = <<>>)

C4_Witness ==
  /\ pc = "ready" /\ nlp = "_Blank"
  /\ ctor.import = "ok" /\ ctor.lg = "fails" /\ ctor.sm = "fails" /\ ctor.blank = "fails"
  /\ Ran("nlp") /\ outcome = "record"

\* C5: retrieval is enabled iff the key was truthy at construction and the
\* acquisition succeeded, and no call changes the flag: not a call on an
\* instance whose construction disabled it, not a call whose retrieval
\* step fails.
C5_RetrievalFlag ==
  /\ [](pc = "ready" => (use_rag <=> (Truthy(ctor.key) /\ ctor.rag = "ok")))
  /\ [][pc = "ready" => use_rag' = use_rag]_vars

C5_Witness ==
  /\ pc = "ready" /\ Truthy(ctor.key) /\ ctor.rag = "llm_fails" /\ ~use_rag
  /\ Called /\ outcome = "record" /\ Truthy(prev)

\* C6: for the text "Contact: jane@example.com, (555) 123-4567. ..." the
\* email is "jane@example.com" and the phone is "(555) 123-4567", opening
\* parenthesis included.
C6_JaneContactInfo ==
  (outcome = "record" /\ call.text = JaneText) =>
    /\ result.contact_info.email = <<"j", "a", "n", "e", "@", "e", "x", "a", "m", "p", "l", "e", ".", "c", "o", "m">>
    /\ result.contact_info.phone = <<"(", "5", "5", "5", ")", " ", "1", "2", "3", "-", "4", "5", "6", "7">>

\* C7, as stated: for a text without any keyword and a document without
\* entities, skills is empty, retrieval enabled or not.
C7_NoKeywordNoEntityNoSkill ==
  (outcome = "record" /\ call.doc.ents = <<>> /\ KeywordsIn(call.text) = {}) =>
    result.skills = {}

\* C7, amended: for a text without any keyword and a document without
\* entities, skills is empty when retrieval is disabled or the retrieval
\* step gives no fragment (it fails, or its answer is None, empty or only
\* delimiters and whitespace).
C7_NoSkillWithoutFragment ==
  (outcome = "record" /\ call.doc.ents = <<>> /\ KeywordsIn(call.text) = {} /\ NoFragment) =>
    result.skills = {}

C7_Witness ==
  /\ outcome = "record" /\ use_rag /\ Ran("retrieval")
  /\ call.text = PlainText /\ call.doc.ents = <<>>
  /\ call.rag = Rag("answered", DelimitersOnly)
  /\ result.skills = {}

\* C8: parse_resume returns None for a falsy text ("" or None) and runs
\* neither the capability nor a step nor the retrieval backend; for any
\* other text it returns what extract_information returns.
C8_ParseResumeGuard ==
  call.op = "parse_resume" =>
    /\ ~Truthy(call.text) => (outcome = "None" /\ trace = <<>>)
    /\ Truthy(call.text) =>
         LET r == ExtractSteps(call.text, Scanned(call.text), call.doc, use_rag, call.rag,
                               NewAccumulators)
         IN outcome = r.outcome /\ result = r.record /\ trace = r.trace

C8_Witness ==
  /\ call.op = "parse_resume" /\ call.text = <<>> /\ outcome = "None"
  /\ Truthy(prev)

\* C9: no state is carried between calls.  After any earlier calls, a call
\* returns the record a first call on a new instance returns for the same
\* text; every skill is a keyword of this text, an entity of this document
\* or a piece of this answer; every education entry is an entity of this
\* document; the experience entry, the email and the phone are parts of
\* this text.
C9_NoCarriedState ==
  outcome = "record" =>
    /\ result = ExtractSteps(call.text, Scanned(call.text), call.doc, use_rag, call.rag,
                             [skills |-> {}, education |-> <<>>, experience |-> <<>>,
                              contact_info |-> [email |-> <<>>, phone |-> <<>>]]).record
    /\ result.raw_text = call.text
    /\ \A s \in result.skills :
         \/ s \in KeywordsIn(call.text)
         \/ s \in EntityTexts(call.doc)
         \/ Ran("retrieval") /\ call.rag.kind = "answered" /\ Contains(call.rag.resp, s)
    /\ result.education \subseteq EntityTexts(call.doc)
    /\ Len(result.experience) <= 1
    /\ \A i \in 1..Len(result.experience) : Contains(call.text, result.experience[i])
    /\ Contains(call.text, result.contact_info.email)
    /\ Contains(call.text, result.contact_info.phone)

\* A call on a text with nothing to find, right after a call on the text
\* with an email, a phone, keywords and an experience header.
C9_Witness ==
  /\ outcome = "record" /\ call.text = PlainText /\ prev = JaneText
  /\ result.skills = {} /\ result.experience = <<>>
  /\ result.contact_info.email = <<>>

\* C10: with a no-op capability, education is empty and, retrieval being
\* disabled, skills holds only keywords; every keyword the text holds
\* case-insensitively is in skills in its canonical form; the first email
\* and the first phone match are in contact_info; the header heuristic
\* gives its entry.
C10_NoOpCapability ==
  (nlp \in NoOpTiers /\ outcome = "record") =>
    /\ result.education = {}
    /\ ~use_rag => result.skills \subseteq Keywords
    /\ LET held == KeywordsIn(call.text)
       IN held \subseteq result.skills /\ result.skills \cap Keywords = held
    /\ result.contact_info.email = FirstOrEmpty(Scanned(call.text).emails)
    /\ result.contact_info.phone = FirstOrEmpty(Scanned(call.text).phones)
    /\ result.experience = Scanned(call.text).experience
    /\ call.text = CasesText => result.skills \cap Keywords = {<<"p", "y", "t", "h", "o", "n">>}
    /\ call.text = MixedText =>
         /\ result.contact_info.email = <<"a", ".", "b", "@", "c", "-", "d", ".", "o", "r", "g">>
         /\ result.contact_info.phone = <<"5", "5", "5", "-", "1", "2", "3", "-", "4", "5", "6", "7">>
         /\ result.experience =
              <<<<"E", "x", "p", "e", "r", "i", "e", "n", "c", "e", " ", "a", "t", " ", "B", "e", "t", "a", " ", "C", "o", "l", "l", "e", "g", "e", ",", " ", "A", "c", "m", "e", ":", " ", "J", "a", "v", "a", "S", "c", "r", "i", "p", "t">>>>

C10_Witness ==
  /\ nlp = "_Blank" /\ ~use_rag /\ outcome = "record"
  /\ call.text = MixedText
  /\ result.skills = {<<"j", "a", "v", "a">>, <<"j", "a", "v", "a", "s", "c", "r", "i", "p", "t">>}
====
